---- MODULE Spec2Model ----
(***************************************************************************)
(* Prequelize (src/index.js): the bound model methods, the transaction     *)
(* handling of the "exactly N rows" mutations and the deferred (righto)    *)
(* execution of every method.                                              *)
(*                                                                         *)
(* One invocation of a bound method is one slot of `inv`.  The engine      *)
(* (sequelize) is the environment: it settles the promises the methods     *)
(* create (transaction(), model.update(...), commit(), rollback()) with a  *)
(* nondeterministic outcome.                                               *)
(***************************************************************************)
EXTENDS Integers, Sequences, FiniteSets, TLC

\* ------------------------------------------------------------------ bounds
\* Number of method invocations of one run.
MaxOps == 1
\* Longest ids array given to updateMany.
MaxIds == 2
\* The most rows of the table that match one query.
MaxMatched == 2
\* The mutations that run at the same time.
MaxConc == 2

\* ------------------------------------------------------------- vocabulary
Slots == 1..MaxOps

\* No transaction: null / undefined settings.transaction.
Null == 0
\* Transactions owned by the caller (passed as settings.transaction).
CallerTxs == {1}
\* The first transaction id sequelize.transaction() hands out.
FirstOwnTx == Cardinality(CallerTxs) + 1
AllTxs == CallerTxs \cup (FirstOwnTx..(FirstOwnTx + MaxOps - 1))

\* The value of a JavaScript argument that was not passed.
Undefined == -1
NoError == "null"
\* An outcome is the (error, result) pair a node-style callback receives.
Outcome(e, v) == [err |-> e, val |-> v]
\* The outcome of a deferred computation that has not resolved.
Pending == Outcome("pending", Undefined)

\* What a settled engine promise carries: a rejection, or a row count of up
\* to one more than the `most` rows the method accepts.
EngineOutcomes(most) ==
    {Outcome("EngineError", Undefined)} \cup {Outcome(NoError, n) : n \in 0..(most + 1)}

\* The ids arrays updateMany is called with.
IdLists == UNION {[1..n -> {7}] : n \in 0..MaxIds}

\* createModelMethods: the thirteen bound methods.
Methods ==
    {"get", "find", "findAll", "findAndCountAll", "findOne", "remove",
     "findAndRemove", "findOneAndRemove", "create", "update", "updateMany",
     "findAndUpdate", "findOneAndUpdate"}

\* Methods that end in findOneAndRemove.
RemoveOne == {"findOneAndRemove", "remove"}
\* Methods that end in findOneAndUpdate.
UpdateOne == {"findOneAndUpdate", "update"}
\* Methods that end in findManyAndUpdate.
UpdateMany == UpdateOne \cup {"updateMany"}
\* The mutations that expect an exact number of affected rows.
Enforced == RemoveOne \cup UpdateMany
\* Methods that end in findOne.
ReadOne == {"findOne", "get"}

\* The engine method each bound method calls on prequelizeModel.model.
EngineMethod(m) ==
    CASE m \in ReadOne -> "findAll"
      [] m = "find" -> "find"
      [] m = "findAll" -> "findAll"
      [] m = "findAndCountAll" -> "findAndCountAll"
      [] m \in RemoveOne \cup {"findAndRemove"} -> "remove"
      [] m = "create" -> "create"
      [] m \in UpdateMany \cup {"findAndUpdate"} -> "update"

\* ---------------------------------------------------------------- settings
\* A where / include tree is kept as its leaves: the path of keys to a value.
\* A value is a scalar (one number) or an array of numbers.
Leaf(p, v, isArray) == [path |-> p, val |-> v, arr |-> isArray]
\* An object of the heap, or undefined (settings without where / include).
Obj(leaves) == [def |-> TRUE, leaves |-> leaves]
NoObj == [def |-> FALSE, leaves |-> {}]

IsPrefix(p, q) == Len(p) <= Len(q) /\ SubSeq(q, 1, Len(p)) = p
\* Two paths meet when one leads through the other.
Meet(p, q) == IsPrefix(p, q) \/ IsPrefix(q, p)
\* A tree: no key holds both a value and a nested object, or two values.
WellFormed(leaves) ==
    \A l, m \in leaves : Meet(l.path, m.path) => l = m

\* The ids the by-id methods are called with.
Ids == {1, 2}
\* The where objects a caller passes: a, b (a value or a nested object with
\* c and d) and id.
WhereLeaves ==
    {Leaf(<<"a">>, <<1>>, FALSE), Leaf(<<"b">>, <<1>>, FALSE),
     Leaf(<<"b", "c">>, <<2>>, FALSE), Leaf(<<"b", "d">>, <<3>>, FALSE)}
        \cup {Leaf(<<"id">>, <<n>>, FALSE) : n \in Ids}
CallerWheres ==
    {NoObj} \cup {Obj(t) : t \in {u \in SUBSET WhereLeaves : WellFormed(u)}}
\* The include objects a caller passes.
IncludeLeaves ==
    {Leaf(<<"age">>, <<1>>, FALSE), Leaf(<<"relatedTable", "age">>, <<1>>, FALSE)}
CallerIncludes == {NoObj} \cup {Obj(t) : t \in SUBSET IncludeLeaves}
\* The limits a caller passes (Undefined: none).
CallerLimits == {Undefined, 1, 5}

\* A settings object: where, include and limit stand for all its keys.
Settings(w, inc, lim) == [where |-> w, include |-> inc, limit |-> lim]
CallerSettings ==
    {Settings(w, inc, lim) :
        w \in CallerWheres, inc \in CallerIncludes, lim \in CallerLimits}
\* {} and the object literals the methods pass to extendSettings.
EmptySettings == Settings(NoObj, NoObj, Undefined)
WhereId(id) ==
    Settings(Obj({Leaf(<<"id">>, id, FALSE)}), NoObj, Undefined)
WhereIds(ids) ==
    Settings(Obj({Leaf(<<"id">>, ids, TRUE)}), NoObj, Undefined)
Limit(n) == Settings(NoObj, NoObj, n)

\* A variant of extend that copies the override's top-level keys only.
extendShallow(a, b) ==
    IF ~a.def THEN b
    ELSE Obj({l \in a.leaves : \A m \in b.leaves : l.path[1] # m.path[1]}
                \cup b.leaves)

\* extend (cyclic-deep-extend): b's keys are written into a, key by key and
\* nested object by nested object; a value of a that b does not lead to
\* stays.  With a undefined the result is b.
extend(a, b) ==
    IF ~a.def THEN b
    ELSE Obj({l \in a.leaves : \A m \in b.leaves : ~Meet(l.path, m.path)}
                \cup b.leaves)

\* extendedSettings.where || {}
orEmpty(o) == IF o.def THEN o ELSE Obj({})

\* A variant that extends where and include one level deep.
extendSettingsShallow(settings, extendedSettings) ==
    [settings EXCEPT
        !.where = extendShallow(@, orEmpty(extendedSettings.where)),
        !.include = extendShallow(@, orEmpty(extendedSettings.include))]

\* extendSettings: the settings it returns.  merge({}, settings) copies the
\* top-level keys; only where and include of extendedSettings are read.
extendSettings(settings, extendedSettings) ==
    [settings EXCEPT
        !.where = extend(@, orEmpty(extendedSettings.where)),
        !.include = extend(@, orEmpty(extendedSettings.include))]

\* extendSettings: its first argument after the call.  The copy shares the
\* where and include objects with it, and extend writes into them.
extendedInPlace(settings, extendedSettings) ==
    LET result == extendSettings(settings, extendedSettings)
    IN  [settings EXCEPT
            !.where = IF @.def THEN result.where ELSE @,
            !.include = IF @.def THEN result.include ELSE @]

\* What each bound method passes to its first extendSettings call.  arg is
\* <<id>> for get, remove and update, the ids array for updateMany.
firstExtension(m, arg) ==
    CASE m \in {"get", "remove", "update"} -> WhereId(arg)
      [] m = "updateMany" -> WhereIds(arg)
      [] m = "findOne" -> Limit(2)
      [] m = "find" -> Limit(1)
      [] OTHER -> EmptySettings

\* What the method it delegates to passes to the second extendSettings call.
secondExtension(m) == IF m = "get" THEN Limit(2) ELSE EmptySettings

\* A variant that calls extendSettings({where: {id: id}}, settings).
querySettingsSwapped(m, arg, settings) ==
    LET first == extendSettings(firstExtension(m, arg), settings)
    IN  IF m \in {"get", "remove", "update", "updateMany"}
        THEN extendSettings(first, secondExtension(m))
        ELSE first

\* The settings a bound method hands to parseSettings.
querySettings(m, arg, settings) ==
    LET first == extendSettings(settings, firstExtension(m, arg))
    IN  IF m \in {"get", "remove", "update", "updateMany"}
        THEN extendSettings(first, secondExtension(m))
        ELSE first

\* parseSettings (./parseSettings): the query of the settings it is given,
\* with their where, include and limit.
parseSettings(settings) == settings

\* The arguments a bound method takes before settings: <<id>>, ids or none.
MethodArgs(m) ==
    CASE m \in {"get", "remove", "update"} -> {<<id>> : id \in Ids}
      [] m = "updateMany" -> IdLists
      [] OTHER -> {<<>>}

VARIABLES
    inv,        \* inv[i]: the state of invocation i
    txState,    \* txState[t]: "unused", "opening", "open" or "failed"
    commits,    \* commits[t]: number of commit() calls made on t
    rollbacks,  \* rollbacks[t]: number of rollback() calls made on t
    nextTx,     \* the id the next sequelize.transaction() returns
    engineLog,  \* the calls made on the engine: [inv, method, tx]
    caller,     \* the settings object the caller holds and passes
    original,   \* that object as the caller made it
    override,   \* the second argument of a direct extendSettings call
    merged,     \* what that extendSettings call returned
    sent        \* the last query: [method, arg, settings], settings as
                \* handed to parseSettings

\* The variables of the settings objects.
settingsVars == <<caller, original, override, merged, sent>>
vars == <<inv, txState, commits, rollbacks, nextTx, engineLog, settingsVars>>

\* No direct extendSettings call, no query yet.
NotMerged == [done |-> FALSE, settings |-> EmptySettings]
NotSent == [method |-> "none", arg |-> <<>>, settings |-> EmptySettings]

IdleInv ==
    [op |-> "none", cb |-> FALSE, ctx |-> Null, ids |-> <<>>, count |-> 0,
     started |-> FALSE, drove |-> FALSE, own |-> Null,
     stage |-> "idle", eng |-> "none", engOut |-> Pending, fin |-> "none",
     resolved |-> Pending, cbCalls |-> 0, cbArg |-> Pending, raised |-> "none",
     matched |-> 0]

Init ==
    /\ inv = [i \in Slots |-> IdleInv]
    /\ txState = [t \in AllTxs |-> IF t \in CallerTxs THEN "open" ELSE "unused"]
    /\ commits = [t \in AllTxs |-> 0]
    /\ rollbacks = [t \in AllTxs |-> 0]
    /\ nextTx = FirstOwnTx
    /\ engineLog = {}
    /\ caller = EmptySettings /\ original = EmptySettings
    /\ override = EmptySettings /\ merged = NotMerged /\ sent = NotSent

\* ------------------------------------------------------- pure code pieces
\* format (./format): the formatted result of a raw engine result.  A row
\* count stands for that many rows, and for a mutation it is result[0].
format(raw) == raw

\* oneResultOrError (./oneResultOrError): "found", "notFound" or "fatal".
oneResultOrError(rows) ==
    IF rows = 0 THEN "notFound" ELSE IF rows = 1 THEN "found" ELSE "fatal"

\* A variant that opens a transaction whatever the caller passed.
opensTransactionAlways(settingsTransaction) == TRUE

\* settings.transaction ? null : prequelizeModel.model.sequelize.transaction()
opensTransaction(settingsTransaction) == settingsTransaction = Null

\* sequelizeSettings.transaction = settings.transaction || updateTransaction
queryTransaction(settingsTransaction, ownTransaction) ==
    IF settingsTransaction # Null THEN settingsTransaction ELSE ownTransaction

\* findOneAndRemove: if(affected > 1) throw
removeTooMany(affected) == affected > 1

\* A variant whose guard is off by one.
updateTooManyOffByOne(affected, count) == affected > count + 1

\* findManyAndUpdate: if(affected > count) throw
updateTooMany(affected, count) == affected > count

\* findOneAndRemove.checkOne: the outcome handed to done.
checkOne(error, affected) ==
    IF error # NoError \/ affected < 1
    THEN Outcome(IF error # NoError THEN error ELSE "NotFound", Undefined)
    ELSE Outcome(NoError, affected)

\* A variant that drops the commit error.
checkCountIgnoringError(error, affected, count) ==
    IF affected < count
    THEN Outcome("Unprocessable", Undefined)
    ELSE Outcome(NoError, affected)

\* findManyAndUpdate.checkCount: the outcome handed to done.
checkCount(error, affected, count) ==
    IF error # NoError \/ affected < count
    THEN Outcome(IF error # NoError THEN error ELSE "Unprocessable", Undefined)
    ELSE Outcome(NoError, affected)

\* A variant without the return after callback(new errors.NotFound()).
findOneAndUpdateCallbackNoReturn(out) ==
    IF out.err # NoError
    THEN IF out.err = "Unprocessable"
         THEN <<Outcome("NotFound", Undefined), Outcome(out.err, Undefined)>>
         ELSE <<Outcome(out.err, Undefined)>>
    ELSE <<Outcome(NoError, out.val)>>

\* The callback findOneAndUpdate hands to findManyAndUpdate: the calls it
\* makes on the caller's callback, in order.
findOneAndUpdateCallback(out) ==
    IF out.err # NoError
    THEN IF out.err = "Unprocessable"
         THEN <<Outcome("NotFound", Undefined)>>
         ELSE <<Outcome(out.err, Undefined)>>
    ELSE <<Outcome(NoError, out.val)>>

\* A variant in which updateMany expects one row, like findOneAndUpdate.
expectedCountOne(m, ids) == IF m \in Enforced THEN 1 ELSE 0

\* The count findManyAndUpdate is called with (1 by findOneAndUpdate,
\* ids.length by updateMany); findOneAndRemove compares with the literal 1.
expectedCount(m, ids) ==
    IF m = "updateMany" THEN Len(ids) ELSE IF m \in Enforced THEN 1 ELSE 0

\* callback && result(callback): whether the method runs its righto itself.
\* findOneAndUpdate always passes a callback of its own to findManyAndUpdate.
runsAtOnce(m, hasCallback) == hasCallback \/ m \in UpdateOne

\* The caller's callback is called with each outcome of `calls`.
Deliver(r, calls) ==
    [r EXCEPT !.cbCalls = @ + Len(calls), !.cbArg = calls[Len(calls)]]

\* done(error, result): the righto resolves and runs the callback it was run
\* with.  With no caller callback findOneAndUpdate's own callback calls
\* undefined, which raises a TypeError.
Resolve(r, out) ==
    LET r1 == [r EXCEPT !.resolved = out, !.stage = "done"]
    IN  IF r.op \in UpdateOne
        THEN IF r.cb
             THEN Deliver(r1, findOneAndUpdateCallback(out))
             ELSE [r1 EXCEPT !.raised = "TypeError"]
        ELSE IF r.cb THEN Deliver(r1, <<out>>) ELSE r1

\* ----------------------------------------------------------------- actions
\* A bound method is called.  Every method but the enforced mutations calls
\* the engine model before it returns; an enforced mutation without
\* settings.transaction calls sequelize.transaction() before it returns.
Call(i, m, hasCallback, settingsTransaction, ids) ==
    /\ inv[i].stage = "idle"
    /\ \A j \in DOMAIN inv : j < i => inv[j].stage # "idle"
    /\ LET opens == m \in Enforced /\ opensTransaction(settingsTransaction)
           r == [IdleInv EXCEPT
                    !.op = m, !.cb = hasCallback,
                    !.ctx = IF m \in Enforced THEN settingsTransaction ELSE Null,
                    !.ids = IF m = "updateMany" THEN ids ELSE <<>>,
                    !.count = expectedCount(m, ids),
                    !.started = runsAtOnce(m, hasCallback),
                    !.own = IF opens THEN nextTx ELSE Null,
                    !.stage = IF m \in Enforced THEN "wait" ELSE "engine",
                    !.eng = IF m \in Enforced THEN "none" ELSE "pending"]
       IN  /\ inv' = [inv EXCEPT ![i] = r]
           /\ IF opens
              THEN /\ txState' = [txState EXCEPT ![nextTx] = "opening"]
                   /\ nextTx' = nextTx + 1
                   /\ engineLog' = engineLog \cup
                        {[inv |-> i, method |-> "transaction", tx |-> Null]}
              ELSE /\ UNCHANGED <<txState, nextTx>>
                   /\ engineLog' = IF m \in Enforced THEN engineLog
                        ELSE engineLog \cup
                            {[inv |-> i, method |-> EngineMethod(m), tx |-> Null]}
    /\ UNCHANGED <<commits, rollbacks, settingsVars>>

\* The caller runs the returned righto (whether or not it passed a callback).
Drive(i) ==
    /\ inv[i].stage # "idle"
    /\ ~inv[i].drove
    /\ inv' = [inv EXCEPT ![i].drove = TRUE, ![i].started = TRUE]
    /\ UNCHANGED <<txState, commits, rollbacks, nextTx, engineLog, settingsVars>>

\* The engine settles the promise of sequelize.transaction().
TransactionSettle(i, ok) ==
    /\ inv[i].own # Null
    /\ txState[inv[i].own] = "opening"
    /\ txState' = [txState EXCEPT ![inv[i].own] = IF ok THEN "open" ELSE "failed"]
    /\ UNCHANGED <<inv, commits, rollbacks, nextTx, engineLog, settingsVars>>

\* A variant that calls resolveResult although the transaction promise was
\* rejected.
OpenFailedProceeds(i) ==
    /\ inv[i].stage = "wait" /\ inv[i].started
    /\ inv[i].own # Null /\ txState[inv[i].own] = "failed"
    /\ inv' = [inv EXCEPT ![i].stage = "engine", ![i].eng = "pending"]
    /\ engineLog' = engineLog \cup
         {[inv |-> i, method |-> EngineMethod(inv[i].op),
           tx |-> queryTransaction(inv[i].ctx, inv[i].own)]}
    /\ UNCHANGED <<txState, commits, rollbacks, nextTx, settingsVars>>

\* righto(resolveResult, updateTransaction) with a rejected transaction
\* promise: resolveResult is not called, the righto resolves with the error.
OpenFailed(i) ==
    /\ inv[i].stage = "wait" /\ inv[i].started
    /\ inv[i].own # Null /\ txState[inv[i].own] = "failed"
    /\ inv' = [inv EXCEPT ![i] = Resolve(inv[i], Outcome("OpenError", Undefined))]
    /\ UNCHANGED <<txState, commits, rollbacks, nextTx, engineLog, settingsVars>>

\* A variant that calls resolveResult without waiting for the transaction.
ResolveResultEarly(i) ==
    /\ inv[i].stage = "wait" /\ inv[i].started
    /\ inv[i].own # Null => txState[inv[i].own] \in {"opening", "open"}
    /\ inv' = [inv EXCEPT ![i].stage = "engine", ![i].eng = "pending"]
    /\ engineLog' = engineLog \cup
         {[inv |-> i, method |-> EngineMethod(inv[i].op),
           tx |-> queryTransaction(inv[i].ctx, inv[i].own)]}
    /\ UNCHANGED <<txState, commits, rollbacks, nextTx, settingsVars>>

\* resolveResult(updateTransaction, done) up to the engine call.
ResolveResult(i) ==
    /\ inv[i].stage = "wait" /\ inv[i].started
    /\ inv[i].own # Null => txState[inv[i].own] = "open"
    /\ inv' = [inv EXCEPT ![i].stage = "engine", ![i].eng = "pending"]
    /\ engineLog' = engineLog \cup
         {[inv |-> i, method |-> EngineMethod(inv[i].op),
           tx |-> queryTransaction(inv[i].ctx, inv[i].own)]}
    /\ UNCHANGED <<txState, commits, rollbacks, nextTx, settingsVars>>

\* The engine settles the promise of the model call.
EngineSettle(i, out) ==
    /\ inv[i].eng = "pending"
    /\ out \in EngineOutcomes(IF inv[i].op = "updateMany" THEN inv[i].count ELSE 1)
    /\ inv' = [inv EXCEPT ![i].eng = "settled", ![i].engOut = out]
    /\ UNCHANGED <<txState, commits, rollbacks, nextTx, engineLog, settingsVars>>

\* righto(format, sequelizeResult, model) / righto(oneResultOrError, ...) of
\* the methods without a transaction of their own.
PlainResult(i) ==
    LET r == inv[i]
        out == r.engOut
    IN  /\ r.op \in Methods \ Enforced
        /\ r.stage = "engine" /\ r.eng = "settled" /\ r.started
        /\ inv' = [inv EXCEPT ![i] =
             IF out.err # NoError THEN Resolve(r, Outcome(out.err, Undefined))
             ELSE IF r.op \in ReadOne
             THEN CASE oneResultOrError(out.val) = "found" ->
                         Resolve(r, Outcome(NoError, format(out.val)))
                    [] oneResultOrError(out.val) = "notFound" ->
                         Resolve(r, Outcome("NotFound", Undefined))
                    [] OTHER -> [r EXCEPT !.stage = "thrown", !.raised = "Fatal"]
             ELSE Resolve(r, Outcome(NoError, format(out.val)))]
        /\ UNCHANGED <<txState, commits, rollbacks, nextTx, engineLog, settingsVars>>

\* The callback of deleteResult / updateResult.
MutationResult(i) ==
    LET r == inv[i]
        out == r.engOut
        affected == format(out.val)
        tooMany == IF r.op \in RemoveOne THEN removeTooMany(affected)
                   ELSE updateTooMany(affected, r.count)
        checked == IF r.op \in RemoveOne THEN checkOne(NoError, affected)
                   ELSE checkCount(NoError, affected, r.count)
    IN  /\ r.op \in Enforced
        /\ r.stage = "engine" /\ r.eng = "settled"
        /\ IF out.err # NoError
           THEN IF r.own # Null
                THEN /\ rollbacks' = [rollbacks EXCEPT ![r.own] = @ + 1]
                     /\ inv' = [inv EXCEPT ![i].stage = "rollback", ![i].fin = "pending"]
                     /\ UNCHANGED commits
                ELSE /\ inv' = [inv EXCEPT ![i] = Resolve(r, Outcome(out.err, Undefined))]
                     /\ UNCHANGED <<commits, rollbacks>>
           ELSE IF tooMany
                THEN /\ inv' = [inv EXCEPT ![i].stage = "thrown", ![i].raised = "TooMany"]
                     /\ UNCHANGED <<commits, rollbacks>>
                ELSE IF r.own # Null
                     THEN /\ commits' = [commits EXCEPT ![r.own] = @ + 1]
                          /\ inv' = [inv EXCEPT ![i].stage = "commit", ![i].fin = "pending"]
                          /\ UNCHANGED rollbacks
                     ELSE /\ inv' = [inv EXCEPT ![i] = Resolve(r, checked)]
                          /\ UNCHANGED <<commits, rollbacks>>
        /\ UNCHANGED <<txState, nextTx, engineLog, settingsVars>>

\* A variant that hands the rollback error to done.
RollbackReturnSurfacing(i, ok) ==
    LET r == [inv[i] EXCEPT !.fin = IF ok THEN "ok" ELSE "failed"]
    IN  /\ inv[i].stage = "rollback" /\ inv[i].fin = "pending"
        /\ inv' = [inv EXCEPT ![i] =
             Resolve(r, Outcome(IF ok THEN r.engOut.err ELSE "RollbackError", Undefined))]
        /\ UNCHANGED <<txState, commits, rollbacks, nextTx, engineLog, settingsVars>>

\* abbott(updateTransaction.rollback())(function(){ done(error, affected) }):
\* affected is still undefined there.
RollbackReturn(i, ok) ==
    LET r == [inv[i] EXCEPT !.fin = IF ok THEN "ok" ELSE "failed"]
    IN  /\ inv[i].stage = "rollback" /\ inv[i].fin = "pending"
        /\ inv' = [inv EXCEPT ![i] = Resolve(r, Outcome(r.engOut.err, Undefined))]
        /\ UNCHANGED <<txState, commits, rollbacks, nextTx, engineLog, settingsVars>>

\* abbott(updateTransaction.commit())(function(commitError){ checkCount(...) })
CommitReturn(i, ok) ==
    LET r == [inv[i] EXCEPT !.fin = IF ok THEN "ok" ELSE "failed"]
        commitError == IF ok THEN NoError ELSE "CommitError"
        affected == format(r.engOut.val)
    IN  /\ inv[i].stage = "commit" /\ inv[i].fin = "pending"
        /\ inv' = [inv EXCEPT ![i] =
             Resolve(r, IF r.op \in RemoveOne THEN checkOne(commitError, affected)
                        ELSE checkCount(commitError, affected, r.count))]
        /\ UNCHANGED <<txState, commits, rollbacks, nextTx, engineLog, settingsVars>>

\* Every step invocation i can take once it is called.
Step(i) ==
    \/ Drive(i)
    \/ \E ok \in BOOLEAN : TransactionSettle(i, ok)
    \/ OpenFailed(i)
    \/ ResolveResult(i)
    \/ \E out \in EngineOutcomes(MaxIds) : EngineSettle(i, out)
    \/ PlainResult(i)
    \/ MutationResult(i)
    \/ \E ok \in BOOLEAN : RollbackReturn(i, ok)
    \/ \E ok \in BOOLEAN : CommitReturn(i, ok)

Next ==
    \/ \E i \in Slots, m \in Methods, hasCallback \in BOOLEAN,
          settingsTransaction \in CallerTxs \cup {Null}, ids \in IdLists :
            Call(i, m, hasCallback, settingsTransaction, ids)
    \/ \E i \in Slots : Step(i)

Spec == Init /\ [][Next]_vars

\* ------------------------------------------- the settings of a method call
\* The state of the invocations, untouched by the settings steps.
NoInvocation ==
    /\ inv = [i \in Slots |-> IdleInv]
    /\ txState = [t \in AllTxs |-> IF t \in CallerTxs THEN "open" ELSE "unused"]
    /\ commits = [t \in AllTxs |-> 0]
    /\ rollbacks = [t \in AllTxs |-> 0]
    /\ nextTx = FirstOwnTx
    /\ engineLog = {}

\* extendSettings(caller, override), called directly.
ExtendSettings ==
    /\ ~merged.done
    /\ merged' = [done |-> TRUE, settings |-> extendSettings(caller, override)]
    /\ caller' = extendedInPlace(caller, override)
    /\ UNCHANGED <<inv, txState, commits, rollbacks, nextTx, engineLog,
                   original, override, sent>>

InitMerge ==
    /\ NoInvocation
    /\ caller \in CallerSettings /\ original = caller
    /\ override \in CallerSettings
    /\ merged = NotMerged /\ sent = NotSent

\* extendSettings on every pair of settings.
SpecMerge == InitMerge /\ [][ExtendSettings]_vars

\* A bound method is called with the caller's settings object: up to the
\* settings it hands to parseSettings.
ShapeQuery(m, arg) ==
    /\ sent' = [method |-> m, arg |-> arg,
                settings |-> parseSettings(querySettings(m, arg, caller))]
    /\ caller' = extendedInPlace(caller, firstExtension(m, arg))
    /\ UNCHANGED <<inv, txState, commits, rollbacks, nextTx, engineLog,
                   original, override, merged>>

InitSettings ==
    /\ NoInvocation
    /\ caller \in CallerSettings /\ original = caller
    /\ override = EmptySettings /\ merged = NotMerged /\ sent = NotSent

NextSettings == \E m \in Methods : \E arg \in MethodArgs(m) : ShapeQuery(m, arg)

\* Method calls that reuse one settings object.
SpecSettings == InitSettings /\ [][NextSettings]_vars

\* ------------------------------------------------ findOne and get, end to end
\* The rows the engine returns for a query with this limit when `matched`
\* rows of the table match it.
limited(matched, limit) ==
    IF limit # Undefined /\ limit < matched THEN limit ELSE matched

\* findOne(settings, callback) / get(id, settings, callback) with the
\* caller's settings object: the query is shaped and model.findAll called.
ReadCall(i, m, hasCallback, arg) ==
    /\ m \in ReadOne
    /\ inv[i].stage = "idle"
    /\ \A j \in DOMAIN inv : j < i => inv[j].stage # "idle"
    /\ inv' = [inv EXCEPT ![i] =
         [IdleInv EXCEPT !.op = m, !.cb = hasCallback,
                         !.started = runsAtOnce(m, hasCallback),
                         !.stage = "engine", !.eng = "pending"]]
    /\ engineLog' = engineLog \cup
         {[inv |-> i, method |-> EngineMethod(m), tx |-> Null]}
    /\ sent' = [method |-> m, arg |-> arg,
                settings |-> parseSettings(querySettings(m, arg, caller))]
    /\ caller' = extendedInPlace(caller, firstExtension(m, arg))
    /\ UNCHANGED <<txState, commits, rollbacks, nextTx, original, override, merged>>

\* The engine settles model.findAll: an error, or the matching rows up to
\* the limit of the query.
ReadSettle(i, matched, failed) ==
    /\ inv[i].op \in ReadOne /\ inv[i].eng = "pending"
    /\ inv' = [inv EXCEPT
         ![i].eng = "settled",
         ![i].matched = matched,
         ![i].engOut = IF failed THEN Outcome("EngineError", Undefined)
                       ELSE Outcome(NoError, limited(matched, sent.settings.limit))]
    /\ UNCHANGED <<txState, commits, rollbacks, nextTx, engineLog, settingsVars>>

NextRead ==
    \/ \E i \in Slots, m \in ReadOne, hasCallback \in BOOLEAN :
         \E arg \in MethodArgs(m) : ReadCall(i, m, hasCallback, arg)
    \/ \E i \in Slots, matched \in 0..MaxMatched, failed \in BOOLEAN :
         ReadSettle(i, matched, failed)
    \/ \E i \in Slots : Drive(i)
    \/ \E i \in Slots : PlainResult(i)

\* findOne and get on the caller's settings and a table with matching rows.
SpecRead == InitSettings /\ [][NextRead]_vars

\* ------------------------------------ self-managed mutations side by side
ConcSlots == 1..MaxConc
ConcTxs == CallerTxs \cup (FirstOwnTx..(FirstOwnTx + MaxConc - 1))

InitConc ==
    /\ inv = [i \in ConcSlots |-> IdleInv]
    /\ txState = [t \in ConcTxs |-> IF t \in CallerTxs THEN "open" ELSE "unused"]
    /\ commits = [t \in ConcTxs |-> 0]
    /\ rollbacks = [t \in ConcTxs |-> 0]
    /\ nextTx = FirstOwnTx
    /\ engineLog = {}
    /\ caller = EmptySettings /\ original = EmptySettings
    /\ override = EmptySettings /\ merged = NotMerged /\ sent = NotSent

\* Enforced mutations called with a callback and no settings.transaction,
\* their steps interleaved.
NextConc ==
    \/ \E i \in ConcSlots, m \in Enforced, ids \in IdLists :
         Call(i, m, TRUE, Null, ids)
    \/ \E i \in ConcSlots, ok \in BOOLEAN : TransactionSettle(i, ok)
    \/ \E i \in ConcSlots : OpenFailed(i)
    \/ \E i \in ConcSlots : ResolveResult(i)
    \/ \E i \in ConcSlots, out \in EngineOutcomes(MaxIds) : EngineSettle(i, out)
    \/ \E i \in ConcSlots : MutationResult(i)
    \/ \E i \in ConcSlots, ok \in BOOLEAN : RollbackReturn(i, ok)
    \/ \E i \in ConcSlots, ok \in BOOLEAN : CommitReturn(i, ok)

SpecConc == InitConc /\ [][NextConc]_vars

\* ------------------------------------------------------------------ claims
Called(i) == inv[i].stage # "idle"
\* The invocation is an enforced mutation without settings.transaction.
SelfManaged(i) == inv[i].op \in Enforced /\ inv[i].ctx = Null
\* The invocation has ended: its righto resolved or an error was raised.
Terminated(i) == inv[i].stage \in {"done", "thrown"}
\* The expected count N of an enforced mutation.
Expected(i) == IF inv[i].op = "updateMany" THEN Len(inv[i].ids) ELSE 1
\* The engine reported n affected rows (no engine error).
Affected(i, n) == inv[i].eng = "settled" /\ inv[i].engOut = Outcome(NoError, n)
\* The engine reported an affected count without error.
Counted(i) == inv[i].eng = "settled" /\ inv[i].engOut.err = NoError
\* The callback of the engine result has run.
Handled(i) == inv[i].stage \in {"commit", "rollback", "done", "thrown"}
\* The calls invocation i made on the engine.
CallsOf(i) == {e \in engineLog : e.inv = i}

\* C1: a self-managed transaction that was opened has, once the operation
\* has ended, seen exactly one of commit() and rollback(), whatever the
\* engine outcome.
C1_ExactlyOneOfCommitRollback ==
    \A i \in Slots :
        (SelfManaged(i) /\ Terminated(i) /\ txState[inv[i].own] = "open")
            => commits[inv[i].own] + rollbacks[inv[i].own] = 1

\* C2: when a self-managed mutation affects fewer rows than expected, the
\* transaction is never committed, and it is rolled back by the time the
\* caller observes the failure.
C2_ShortfallRolledBack ==
    \A i \in Slots :
        (SelfManaged(i) /\ Counted(i) /\ inv[i].engOut.val < Expected(i))
            => /\ commits[inv[i].own] = 0
               /\ inv[i].stage = "done" => rollbacks[inv[i].own] = 1

\* C3: with settings.transaction the layer opens no transaction, makes no
\* commit() or rollback() on the caller's transaction, and every engine
\* mutation runs with the caller's transaction.
C3_CallerTransactionUntouched ==
    \A i \in Slots :
        (inv[i].op \in Enforced /\ inv[i].ctx # Null)
            => /\ inv[i].own = Null
               /\ \A e \in CallsOf(i) : e.method # "transaction"
               /\ commits[inv[i].ctx] = 0 /\ rollbacks[inv[i].ctx] = 0
               /\ \A e \in CallsOf(i) : e.tx = inv[i].ctx

\* C3 witness: a mutation with the caller's transaction ran on the engine
\* and ended.
C3_Witness ==
    \E i \in Slots :
        /\ inv[i].op \in Enforced /\ inv[i].ctx # Null /\ inv[i].stage = "done"
        /\ Affected(i, 0)
        /\ \E e \in CallsOf(i) : e.method \in {"update", "remove"} /\ e.tx = inv[i].ctx

\* C4: a singleton mutation that affected 0 rows (no engine or commit
\* error) ends with NotFound, in the callback's argument and in what the
\* returned righto hands to the caller who runs it.
C4_SingletonZeroIsNotFound ==
    \A i \in Slots :
        (inv[i].op \in RemoveOne \cup UpdateOne /\ Affected(i, 0)
            /\ inv[i].stage = "done" /\ inv[i].fin # "failed"
            /\ inv[i].raised = "none")
            => /\ inv[i].cb => inv[i].cbArg.err = "NotFound"
               /\ inv[i].drove => inv[i].resolved.err = "NotFound"

\* C5: updateMany expects ids.length rows: fewer affected rows (no engine
\* or commit error) end with Unprocessable, exactly ids.length rows end
\* with success and that count.
C5_UpdateManyCount ==
    \A i \in Slots :
        (inv[i].op = "updateMany" /\ Counted(i) /\ inv[i].stage = "done"
            /\ inv[i].fin # "failed")
            => LET observed == IF inv[i].engOut.val < Len(inv[i].ids)
                               THEN Outcome("Unprocessable", Undefined)
                               ELSE Outcome(NoError, Len(inv[i].ids))
               IN  /\ inv[i].engOut.val <= Len(inv[i].ids)
                   /\ inv[i].resolved = observed
                   /\ inv[i].cb => (inv[i].cbCalls = 1 /\ inv[i].cbArg = observed)

\* C5 witness: updateMany of two ids affected one row, and the callback ran.
C5_Witness ==
    \E i \in Slots :
        /\ inv[i].op = "updateMany" /\ Len(inv[i].ids) = 2 /\ Affected(i, 1)
        /\ inv[i].stage = "done" /\ inv[i].cb /\ inv[i].cbCalls = 1

\* C6: an enforced mutation that affected more rows than expected raises:
\* the callback is not called, the righto does not resolve, and no commit()
\* is made.
C6_TooManyIsFatal ==
    \A i \in Slots :
        (inv[i].op \in Enforced /\ Counted(i) /\ inv[i].engOut.val > Expected(i))
            => /\ inv[i].cbCalls = 0
               /\ inv[i].resolved = Pending
               /\ inv[i].own # Null => commits[inv[i].own] = 0
               /\ Handled(i) => (inv[i].stage = "thrown" /\ inv[i].raised = "TooMany")

\* C6 witness: a self-managed mutation called with a callback raised on an
\* over-count.
C6_Witness ==
    \E i \in Slots :
        /\ SelfManaged(i) /\ inv[i].cb /\ Counted(i)
        /\ inv[i].engOut.val > Expected(i) /\ inv[i].stage = "thrown"

\* C7: a self-managed mutation that affected exactly N rows makes one
\* commit() and no rollback(); it ends with success and the count when the
\* commit succeeds and with the commit error when it fails.
C7_ExactCountCommits ==
    \A i \in Slots :
        (SelfManaged(i) /\ Affected(i, Expected(i)) /\ Handled(i))
            => /\ commits[inv[i].own] = 1 /\ rollbacks[inv[i].own] = 0
               /\ inv[i].stage \in {"commit", "done"}
               /\ inv[i].stage = "done" =>
                    LET observed == IF inv[i].fin = "ok"
                                    THEN Outcome(NoError, Expected(i))
                                    ELSE Outcome("CommitError", Undefined)
                    IN  /\ inv[i].fin \in {"ok", "failed"}
                        /\ inv[i].resolved = observed
                        /\ inv[i].cb => (inv[i].cbCalls = 1 /\ inv[i].cbArg = observed)

\* C7 witness: the commit of an exact-count update failed and the callback
\* ran.
C7_Witness ==
    \E i \in Slots :
        /\ SelfManaged(i) /\ Affected(i, Expected(i)) /\ inv[i].stage = "done"
        /\ inv[i].fin = "failed" /\ inv[i].cb /\ inv[i].cbCalls = 1

\* C8: when the engine mutation fails in a self-managed transaction, one
\* rollback() and no commit() is made, the caller is notified only once the
\* rollback has returned, and with the engine's error whether the rollback
\* succeeded or failed.
C8_EngineErrorRollsBack ==
    \A i \in Slots :
        (SelfManaged(i) /\ inv[i].eng = "settled" /\ inv[i].engOut.err # NoError
            /\ Handled(i))
            => /\ rollbacks[inv[i].own] = 1 /\ commits[inv[i].own] = 0
               /\ (inv[i].resolved # Pending \/ inv[i].cbCalls > 0) =>
                    /\ inv[i].fin \in {"ok", "failed"}
                    /\ inv[i].resolved = Outcome(inv[i].engOut.err, Undefined)
                    /\ inv[i].cb => (inv[i].cbCalls = 1 /\ inv[i].cbArg = inv[i].resolved)
               /\ inv[i].fin \in {"ok", "failed"} => inv[i].stage = "done"

\* C8 witness: the rollback after an engine error failed and the callback
\* ran.
C8_Witness ==
    \E i \in Slots :
        /\ SelfManaged(i) /\ inv[i].engOut.err = "EngineError"
        /\ inv[i].fin = "failed" /\ inv[i].cb /\ inv[i].cbCalls = 1

\* C9: a method called without a callback makes no call on the engine (no
\* model call, no sequelize.transaction()) until the caller runs the
\* returned righto.
C9_NoEngineCallUntilDriven ==
    \A i \in Slots :
        (Called(i) /\ ~inv[i].cb /\ ~inv[i].drove) => CallsOf(i) = {}

\* C10 as stated, for the mutations whose outcomes it lists (affected count
\* below, equal to or above the expected count): one called with a callback
\* has called it exactly once when it has ended.
C10_CallbackExactlyOnce ==
    \A i \in Slots :
        (inv[i].cb /\ inv[i].op \in Enforced /\ Terminated(i)) => inv[i].cbCalls = 1

\* The raised fatal error: too many affected rows, or several rows for
\* findOne / get.
Fatal(i) ==
    /\ inv[i].stage = "thrown" /\ Counted(i)
    /\ \/ inv[i].op \in Enforced /\ inv[i].engOut.val > Expected(i)
       \/ inv[i].op \in ReadOne /\ inv[i].engOut.val > 1

\* C10 amended: a method called with a callback runs at once and calls the
\* callback at most once: exactly once when it completes, never when it
\* raises the fatal error; and until it has ended a step of it is pending.
C10_CallbackOnceUnlessFatal ==
    \A i \in Slots :
        inv[i].cb
            => /\ inv[i].started
               /\ inv[i].cbCalls <= 1
               /\ inv[i].stage = "done" => inv[i].cbCalls = 1
               /\ inv[i].stage = "thrown" => (inv[i].cbCalls = 0 /\ Fatal(i))
               /\ inv[i].stage # "done" => inv[i].cbCalls = 0
               /\ ~Terminated(i) => ENABLED Step(i)

\* C10 witness: a mutation called with a callback raised the fatal error
\* and the callback was not called.
C10_Witness ==
    \E i \in Slots :
        inv[i].cb /\ inv[i].op \in Enforced /\ Fatal(i) /\ inv[i].cbCalls = 0

\* The leaves of a tree that lie under top-level key k.
Under(o, k) == {l \in o.leaves : l.path[1] = k}
\* The leaves of base that override does not lead to.
Unmentioned(base, over) ==
    {l \in base.leaves : \A m \in over.leaves : ~Meet(l.path, m.path)}
\* result holds every unmentioned leaf of base, every leaf of over, no more.
DeepMerged(base, over, result) ==
    /\ Unmentioned(base, over) \subseteq result.leaves
    /\ over.leaves \subseteq result.leaves
    /\ result.leaves \subseteq base.leaves \cup over.leaves
    /\ WellFormed(result.leaves)

\* C11: a key other than where and include that the override sets (limit)
\* has the override's value in the settings extendSettings returns.
C11_OverrideKeysWin ==
    (merged.done /\ override.limit # Undefined)
        => merged.settings.limit = override.limit

\* C12: the query of findOne and get has limit 2 and the query of find has
\* limit 1, whatever limit the caller's settings hold.
C12_ForcedLimit ==
    /\ sent.method \in ReadOne => sent.settings.limit = 2
    /\ sent.method = "find" => sent.settings.limit = 1

\* C13: extendSettings deep-merges where and include: what the override
\* does not mention stays, at every depth, every key of the override is in
\* the result, and where {a: 1, b: {c: 2}} with {b: {d: 3}} gives
\* {a: 1, b: {c: 2, d: 3}}.
C13_DeepMerge ==
    merged.done
        => /\ DeepMerged(original.where, override.where, merged.settings.where)
           /\ DeepMerged(original.include, override.include, merged.settings.include)
           /\ (/\ original.where =
                    Obj({Leaf(<<"a">>, <<1>>, FALSE), Leaf(<<"b", "c">>, <<2>>, FALSE)})
               /\ override.where = Obj({Leaf(<<"b", "d">>, <<3>>, FALSE)}))
                => merged.settings.where =
                    Obj({Leaf(<<"a">>, <<1>>, FALSE), Leaf(<<"b", "c">>, <<2>>, FALSE),
                         Leaf(<<"b", "d">>, <<3>>, FALSE)})

\* C13 witness: where {a: 1, b: {c: 2}} was merged with {b: {d: 3}}.
C13_Witness ==
    /\ merged.done
    /\ original.where =
         Obj({Leaf(<<"a">>, <<1>>, FALSE), Leaf(<<"b", "c">>, <<2>>, FALSE)})
    /\ override.where = Obj({Leaf(<<"b", "d">>, <<3>>, FALSE)})
    /\ Cardinality(merged.settings.where.leaves) = 3

\* C14: after any sequence of method calls that reuse it, the caller's
\* settings object, its where and its include hold what they held at first.
C14_InputsUnchanged == caller = original

\* C15: findOne and get resolve with NotFound when no row matches, with the
\* record when exactly one row matches, and raise the fatal error when two
\* or more rows match: they never resolve with one of several matching rows.
C15_OneOrError ==
    \A i \in DOMAIN inv :
        (inv[i].op \in ReadOne /\ Counted(i) /\ Terminated(i))
            => /\ inv[i].matched = 0 => inv[i].resolved.err = "NotFound"
               /\ inv[i].matched = 1 => inv[i].resolved = Outcome(NoError, 1)
               /\ inv[i].matched >= 2
                    => inv[i].raised = "Fatal" /\ inv[i].resolved = Pending

\* The caller of invocation i has been told its outcome.
Notified(i) == inv[i].resolved # Pending \/ inv[i].cbCalls > 0
\* The steps of invocation i that are in flight.
InFlight(i) ==
    {st \in {"open", "query", "finish"} :
        \/ st = "open" /\ inv[i].own # Null /\ txState[inv[i].own] = "opening"
        \/ st = "query" /\ inv[i].eng = "pending"
        \/ st = "finish" /\ inv[i].fin = "pending"}

\* C16: the steps of a self-managed enforced mutation are strictly
\* sequential: the update/remove is issued only after the transaction opened,
\* commit or rollback only after the engine call returned, the caller is told
\* only after the commit or rollback completed, and never are two of the
\* steps in flight at once.
C16_StepsSequential ==
    \A i \in DOMAIN inv :
        (Called(i) /\ SelfManaged(i))
            => /\ inv[i].eng # "none" => txState[inv[i].own] = "open"
               /\ commits[inv[i].own] + rollbacks[inv[i].own] > 0
                    => inv[i].eng = "settled"
               /\ inv[i].fin # "none"
                    => commits[inv[i].own] + rollbacks[inv[i].own] = 1
               /\ (Notified(i) /\ inv[i].eng # "none")
                    => inv[i].fin \in {"ok", "failed"}
               /\ (Notified(i) /\ inv[i].eng = "none")
                    => txState[inv[i].own] = "failed"
               /\ Cardinality(InFlight(i)) <= 1

\* C16 witness: a self-managed mutation went through open, query and commit
\* and told its caller.
C16_Witness ==
    \E i \in DOMAIN inv :
        /\ SelfManaged(i) /\ inv[i].stage = "done"
        /\ commits[inv[i].own] = 1 /\ inv[i].fin = "ok"
        /\ inv[i].cbCalls = 1 /\ inv[i].resolved.err = NoError

\* The self-managed mutations that have been called.
OwnManaged == {i \in DOMAIN inv : Called(i) /\ SelfManaged(i)}

\* C17: of several self-managed mutations in progress at once, each opens a
\* transaction of its own, issues its update/remove and its commit or
\* rollback on that transaction only, and leaves no transaction open once it
\* has completed.
C17_OwnTransactionClosed ==
    Cardinality(OwnManaged) >= 2
        => /\ \A i, j \in OwnManaged : i # j => inv[i].own # inv[j].own
           /\ \A i \in OwnManaged :
                /\ inv[i].own # Null
                /\ \A e \in CallsOf(i) :
                     e.method # "transaction" => e.tx = inv[i].own
                /\ commits[inv[i].own] + rollbacks[inv[i].own] <= 1
                /\ (Terminated(i) /\ txState[inv[i].own] = "open")
                     => commits[inv[i].own] + rollbacks[inv[i].own] = 1
           /\ \A t \in DOMAIN txState :
                commits[t] + rollbacks[t] > 0
                    => \E i \in OwnManaged : inv[i].own = t /\ Handled(i)

\* C18: when opening the transaction fails, the update/remove is never
\* issued, nothing is committed or rolled back, and the caller gets the error
\* of the open.
C18_OpenFailure ==
    \A i \in DOMAIN inv :
        (Called(i) /\ SelfManaged(i) /\ txState[inv[i].own] = "failed")
            => /\ inv[i].eng = "none"
               /\ \A e \in CallsOf(i) : e.method = "transaction"
               /\ commits[inv[i].own] = 0 /\ rollbacks[inv[i].own] = 0
               /\ inv[i].stage \in {"wait", "done"}
               /\ inv[i].stage = "done"
                    => /\ inv[i].resolved = Outcome("OpenError", Undefined)
                       /\ inv[i].cb => /\ inv[i].cbCalls = 1
                                       /\ inv[i].cbArg.err = "OpenError"

\* C18 witness: the open failed and the caller's callback got its error.
C18_Witness ==
    \E i \in DOMAIN inv :
        /\ SelfManaged(i) /\ txState[inv[i].own] = "failed"
        /\ inv[i].stage = "done" /\ inv[i].cb
        /\ inv[i].cbArg.err = "OpenError"

\* C19: the where of the query of get, update, remove and updateMany holds
\* id with exactly the id (the ids) argument, whatever id the caller's where
\* held, and every other key of the caller's where.
C19_ByIdWhere ==
    sent.method \in {"get", "update", "remove", "updateMany"}
        => /\ Under(sent.settings.where, "id") =
                {Leaf(<<"id">>, sent.arg, sent.method = "updateMany")}
           /\ \A l \in original.where.leaves :
                l.path[1] # "id" => l \in sent.settings.where.leaves

\* C19 witness: update(2, ...) with a where that held id 1 and another key.
C19_Witness ==
    /\ sent.method = "update" /\ sent.arg = <<2>>
    /\ Leaf(<<"id">>, <<1>>, FALSE) \in original.where.leaves
    /\ Leaf(<<"b", "c">>, <<2>>, FALSE) \in original.where.leaves

====
